---- MODULE Spec2Model ----
(***************************************************************************)
(* Model of src/main.rs: the ray tracing core (intersect_ray_sphere,       *)
(* trace_ray, compute_lighting), the Canvas iteration and mapping, and the *)
(* phases of main (render pass, present, event wait loop).                 *)
(*                                                                         *)
(* f32 values are modelled as fixed-point integers counting 1/SCALE units, *)
(* every multiplication, division and square root rounding to the nearest  *)
(* unit.  The special values f32::MAX (the constant INF), +infinity,       *)
(* -infinity and NaN are distinct codes outside the finite range; NaN      *)
(* compares false with everything, as in IEEE 754.                         *)
(***************************************************************************)
EXTENDS Integers, Sequences, FiniteSets, TLC

VARIABLES
    \* ---- one call of trace_ray (lines 78-110) ----
    origin,          \* argument origin
    direction,       \* argument direction
    min_t,           \* argument min_t
    max_t,           \* argument max_t
    scene,           \* argument scene: [spheres, lighting]
    i,               \* position of the `for sphere in &scene.spheres` loop
    closest,         \* [t |-> closest_t, s |-> closest_sphere] (s = 0 is None)
    ts,              \* the pair returned by the last intersect_ray_sphere
    light_intensity, \* the value returned by compute_lighting
    color,           \* the returned Color
    fpc,             \* position inside trace_ray
    \* ---- main (lines 157-250) ----
    canvas,          \* Canvas { width, height }
    cx,              \* outer loop variable of Canvas::each
    cy,              \* inner loop variable of Canvas::each
    surface,         \* the pixel surface: per coordinate, writes and colour
    presented,       \* number of calls of present()
    events,          \* the SDL event queue
    delivered,       \* number of events delivered so far
    pc               \* position inside main

fvars == <<origin, direction, min_t, max_t, scene, i, closest, ts,
           light_intensity, color, fpc>>
mvars == <<canvas, cx, cy, surface, presented, events, delivered, pc>>
vars == <<origin, direction, min_t, max_t, scene, i, closest, ts,
          light_intensity, color, fpc,
          canvas, cx, cy, surface, presented, events, delivered, pc>>

----------------------------------------------------------------------------
(* Bounds of the model *)

MaxSpheres == 2
MaxLights == 2
MaxHalf == 2
MaxEvents == 2

----------------------------------------------------------------------------
(* f32 *)

SCALE == 100

INF == 2000000000

PosInf == INF + 1

NegInf == 0 - PosInf

NaN == NegInf - 1

IsFinite(x) == x > 0 - INF /\ x < INF

Abs(x) == IF x < 0 THEN 0 - x ELSE x

\* n / d rounded to the nearest integer
Rounded[n \in Int, d \in Int \ {0}] ==
    LET q == (2 * Abs(n) + Abs(d)) \div (2 * Abs(d))
    IN  IF (n < 0) = (d < 0) THEN q ELSE 0 - q

RoundDiv(n, d) == Rounded[n, d]

\* i32 division of Rust: truncation toward zero (d > 0)
TruncDiv(n, d) == IF n >= 0 THEN n \div d ELSE 0 - ((0 - n) \div d)

\* bisection for the floor of the square root of x between lo and hi
SqrtSearch[lo \in Nat, hi \in Nat, x \in Nat] ==
    IF lo >= hi THEN lo
    ELSE LET mid == (lo + hi + 1) \div 2
         IN  IF mid * mid <= x THEN SqrtSearch[mid, hi, x]
                               ELSE SqrtSearch[lo, mid - 1, x]

\* floor of the square root of a natural number
ISqrt(x) == SqrtSearch[0, IF x < 46340 THEN x ELSE 46340, x]

\* x < y on f32: false as soon as one side is NaN
Lt(x, y) == x # NaN /\ y # NaN /\ x < y

FMul(x, y) == RoundDiv(x * y, SCALE)

FDiv(x, y) ==
    IF y = 0
    THEN IF x = 0 THEN NaN ELSE IF x > 0 THEN PosInf ELSE NegInf
    ELSE RoundDiv(x * SCALE, y)

\* f32::sqrt of x >= 0, rounded to the nearest unit
FSqrt(x) == (ISqrt(4 * x * SCALE) + 1) \div 2

\* IF x is an integer n, the f32 value n
F(n) == n * SCALE

----------------------------------------------------------------------------
(* glam::Vec3 *)

Vec3(x, y, z) == <<F(x), F(y), F(z)>>

VAdd(u, v) == <<u[1] + v[1], u[2] + v[2], u[3] + v[3]>>

VSub(u, v) == <<u[1] - v[1], u[2] - v[2], u[3] - v[3]>>

\* f32 * Vec3
VScale(t, v) == <<FMul(t, v[1]), FMul(t, v[2]), FMul(t, v[3])>>

\* Vec3 / f32
VDiv(v, s) == <<FDiv(v[1], s), FDiv(v[2], s), FDiv(v[3], s)>>

Dot(u, v) == FMul(u[1], v[1]) + FMul(u[2], v[2]) + FMul(u[3], v[3])

Length(v) == FSqrt(Dot(v, v))

----------------------------------------------------------------------------
(* sdl2::pixels::Color and the scene types *)

RGB(r, g, b) == <<r, g, b>>

BACKGROUND_COLOR == RGB(255, 255, 255)

\* `x as u8` for an f32 x: truncation toward zero, saturating at 0 and 255
as_u8_wrap(x) == (x \div SCALE) % 256

as_u8(x) ==
    IF x = NaN \/ x < 0 THEN 0
    ELSE IF x >= F(256) THEN 255
    ELSE x \div SCALE

Sphere(radius, center, c) == [radius |-> radius, center |-> center, color |-> c]

\* Option<Vec3>: None is the empty sequence, Some(v) is <<v>>
None == <<>>

Some(v) == <<v>>

Light(kind, intensity, position, dir) ==
    [kind |-> kind, intensity |-> intensity, position |-> position,
     direction |-> dir]

----------------------------------------------------------------------------
(* intersect_ray_sphere, lines 59-76 *)

Discriminant(o, d, sphere) ==
    LET r  == sphere.radius
        co == VSub(o, sphere.center)
        a  == Dot(d, d)
        b  == 2 * Dot(co, d)
        c  == Dot(co, co) - FMul(r, r)
    IN  FMul(b, b) - FMul(4 * a, c)

intersect_swapped(o, d, sphere) ==
    LET co == VSub(o, sphere.center)
        a  == Dot(d, d)
        b  == 2 * Dot(co, d)
        discriminant == Discriminant(o, d, sphere)
    IN  IF discriminant < 0 THEN <<INF, INF>>
        ELSE <<FDiv((0 - b) - FSqrt(discriminant), 2 * a),
               FDiv((0 - b) + FSqrt(discriminant), 2 * a)>>

intersect_ray_sphere(o, d, sphere) ==
    LET co == VSub(o, sphere.center)
        a  == Dot(d, d)
        b  == 2 * Dot(co, d)
        discriminant == Discriminant(o, d, sphere)
    IN  IF discriminant < 0 THEN <<INF, INF>>
        ELSE <<FDiv((0 - b) + FSqrt(discriminant), 2 * a),
               FDiv((0 - b) - FSqrt(discriminant), 2 * a)>>

----------------------------------------------------------------------------
(* compute_lighting, lines 125-155 *)

\* the diffuse term shared by the Point and Directional arms
Diffuse(intensity, n, l) ==
    LET n_dot_l == Dot(n, l)
    IN  IF n_dot_l > 0
        THEN FDiv(FMul(intensity, n_dot_l), FMul(Length(n), Length(l)))
        ELSE 0

AmbientTermDiffuse(light, p, n) == Diffuse(light.intensity, n, p)

AmbientTerm(light, p, n) == light.intensity

\* the loop of compute_lighting from light k on, with accumulator acc;
\* ok = FALSE when an unwrap() of None panics
RECURSIVE LightingFrom(_, _, _, _, _)
LightingFrom(k, acc, p, n, lighting) ==
    IF k > Len(lighting) THEN [ok |-> TRUE, i |-> acc]
    ELSE LET light == lighting[k]
         IN  CASE light.kind = "Ambient" ->
                    LightingFrom(k + 1, acc + AmbientTerm(light, p, n), p, n, lighting)
               [] light.kind = "Point" ->
                    IF light.position = None THEN [ok |-> FALSE, i |-> acc]
                    ELSE LightingFrom(k + 1,
                            acc + Diffuse(light.intensity, n,
                                          VSub(light.position[1], p)),
                            p, n, lighting)
               [] light.kind = "Directional" ->
                    IF light.direction = None THEN [ok |-> FALSE, i |-> acc]
                    ELSE LightingFrom(k + 1,
                            acc + Diffuse(light.intensity, n, light.direction[1]),
                            p, n, lighting)

compute_lighting(p, n, sc) == LightingFrom(1, 0, p, n, sc.lighting)

----------------------------------------------------------------------------
(* trace_ray, lines 78-110 *)

InRangeClosed(lo, t, hi) == (Lt(lo, t) \/ lo = t) /\ (Lt(t, hi) \/ t = hi)

\* min_t < t && t < max_t
InRange(lo, t, hi) == Lt(lo, t) /\ Lt(t, hi)

CloserOrEqual(t, closest_t) == Lt(t, closest_t) \/ t = closest_t

\* t < closest_t
Closer(t, closest_t) == Lt(t, closest_t)

NoHit == [t |-> INF, s |-> 0]

\* the body of the loop over the spheres, for sphere number k
ScanSphere(cl, k, roots, lo, hi) ==
    LET after1 == IF InRange(lo, roots[1], hi) /\ Closer(roots[1], cl.t)
                  THEN [t |-> roots[1], s |-> k] ELSE cl
    IN  IF InRange(lo, roots[2], hi) /\ Closer(roots[2], after1.t)
        THEN [t |-> roots[2], s |-> k] ELSE after1

HitPoint(o, d, cl) == VAdd(o, VScale(cl.t, d))

HitNormal(p, sphere) ==
    LET n == VSub(p, sphere.center) IN VDiv(n, Length(n))

ScaleColor(c, li) ==
    RGB(as_u8(FMul(F(c[1]), li)), as_u8(FMul(F(c[2]), li)), as_u8(FMul(F(c[3]), li)))

----------------------------------------------------------------------------
(* Canvas, lines 24-43, and canvas_2_viewport, lines 45-57 *)

Canvas(w, h) == [width |-> w, height |-> h]

to_screen_noflip(cv, x, y) ==
    <<TruncDiv(cv.width, 2) + x, TruncDiv(cv.height, 2) + y>>

to_screen(cv, x, y) ==
    <<TruncDiv(cv.width, 2) + x, TruncDiv(cv.height, 2) - y>>

\* first value of `(-self.width / 2)..(self.width / 2)`: the unary minus binds first
RangeLo(n) == TruncDiv(0 - n, 2)

RangeHi(n) == TruncDiv(n, 2)

canvas_2_viewport(x, y, width, height, viewport) ==
    <<FMul(F(x), FDiv(viewport[1], F(width))),
      FMul(F(y), FDiv(viewport[2], F(height))),
      viewport[3]>>

----------------------------------------------------------------------------
(* main, lines 157-250 *)

\* the scene literal of main.  The ground sphere (centre (0,-5001,0), radius
\* 5000) is kept tangent to y = -1 but reduced to radius 50 so that its
\* squares stay inside the 32-bit integers of the model checker.
MainScene ==
    [spheres |-> <<Sphere(F(1), Vec3(0, -1, 3), RGB(255, 0, 0)),
                   Sphere(F(1), Vec3(2, 0, 4), RGB(0, 0, 255)),
                   Sphere(F(1), Vec3(-2, 0, 4), RGB(0, 255, 0)),
                   Sphere(F(50), Vec3(0, -51, 0), RGB(255, 255, 0))>>,
     lighting |-> <<Light("Ambient", SCALE \div 5, None, None),
                    Light("Point", (3 * SCALE) \div 5, Some(Vec3(2, 1, 0)), None),
                    Light("Directional", SCALE \div 5, None, Some(Vec3(1, 4, 4)))>>]

MainOrigin == Vec3(0, 0, 0)

MainViewport == Vec3(1, 1, 1)

\* sdl2::event::Event, as far as the match of lines 239-246 tells them apart
Event(type, keycode) == [type |-> type, keycode |-> keycode]

EventKinds ==
    {Event("Quit", None), Event("KeyDown", Some("Escape")),
     Event("KeyDown", Some("A")),
     Event("KeyUp", Some("Escape"))}

IsQuitEventAnyKey(e) == e.type = "Quit" \/ e.type = "KeyDown"

\* Event::Quit { .. } | Event::KeyDown { keycode: Some(Keycode::Escape), .. }
IsQuitEvent(e) ==
    e.type = "Quit" \/ (e.type = "KeyDown" /\ e.keycode = Some("Escape"))

BlankSurface(cv) ==
    [pt \in (0 .. cv.width) \X (0 .. cv.height) |->
        [count |-> 0, color |-> RGB(0, 0, 0)]]

draw_point(sf, pt, c) ==
    [sf EXCEPT ![pt] = [count |-> @.count + 1, color |-> c]]

MainInit ==
    /\ canvas \in {Canvas(2 * w, 2 * h) : w \in 1 .. MaxHalf, h \in 1 .. MaxHalf}
    /\ cx = RangeLo(canvas.width)
    /\ cy = RangeLo(canvas.height)
    /\ surface = BlankSurface(canvas)
    /\ presented = 0
    /\ events = <<>>
    /\ delivered = 0
    /\ pc = "render"
    /\ origin = MainOrigin
    /\ direction = Vec3(0, 0, 0)
    /\ min_t = F(1)
    /\ max_t = INF
    /\ scene = MainScene
    /\ i = 1
    /\ closest = NoHit
    /\ ts = <<INF, INF>>
    /\ light_intensity = 0
    /\ color = BACKGROUND_COLOR
    /\ fpc = "off"

\* Canvas::each calls the closure for (cx, cy), which calls trace_ray,
\* lines 222-225
CallTraceRay ==
    /\ pc = "render"
    /\ cx < RangeHi(canvas.width)
    /\ cy < RangeHi(canvas.height)
    /\ direction' = canvas_2_viewport(cx, cy, canvas.width, canvas.height,
                                      MainViewport)
    /\ origin' = MainOrigin
    /\ min_t' = F(1)
    /\ max_t' = INF
    /\ scene' = MainScene
    /\ i' = 1
    /\ closest' = NoHit
    /\ fpc' = "scan"
    /\ pc' = "trace"
    /\ UNCHANGED <<ts, light_intensity, color>>
    /\ UNCHANGED <<canvas, cx, cy, surface, presented, events, delivered>>

\* trace_ray has returned: set_draw_color and draw_point, lines 227-231, and
\* the next round of the loops of Canvas::each
DrawPoint ==
    /\ pc = "trace"
    /\ fpc = "done"
    /\ surface' = draw_point(surface, to_screen(canvas, cx, cy), color)
    /\ IF cy + 1 < RangeHi(canvas.height)
       THEN cy' = cy + 1 /\ cx' = cx
       ELSE cy' = RangeLo(canvas.height) /\ cx' = cx + 1
    /\ fpc' = "off"
    /\ pc' = "render"
    /\ UNCHANGED <<origin, direction, min_t, max_t, scene, i, closest, ts,
                   light_intensity, color>>
    /\ UNCHANGED <<canvas, presented, events, delivered>>

\* Canvas::each has returned: sdl_canvas.present() and the event pump
Present ==
    /\ pc = "render"
    /\ ~ (cx < RangeHi(canvas.width) /\ cy < RangeHi(canvas.height))
    /\ presented' = presented + 1
    /\ pc' = "poll"
    /\ UNCHANGED <<canvas, cx, cy, surface, events, delivered>>
    /\ UNCHANGED fvars

\* poll_iter() yields a Quit or Escape key-down event: break 'running
PollQuit ==
    /\ pc = "poll"
    /\ events # <<>>
    /\ IsQuitEvent(Head(events))
    /\ events' = Tail(events)
    /\ pc' = "done"
    /\ UNCHANGED <<canvas, cx, cy, surface, presented, delivered>>
    /\ UNCHANGED fvars

\* poll_iter() yields any other event: `_ => {}`
PollOther ==
    /\ pc = "poll"
    /\ events # <<>>
    /\ ~ IsQuitEvent(Head(events))
    /\ events' = Tail(events)
    /\ UNCHANGED <<canvas, cx, cy, surface, presented, delivered, pc>>
    /\ UNCHANGED fvars

\* poll_iter() is exhausted: the for loop ends
PollEmpty ==
    /\ pc = "poll"
    /\ events = <<>>
    /\ pc' = "sleep"
    /\ UNCHANGED <<canvas, cx, cy, surface, presented, events, delivered>>
    /\ UNCHANGED fvars

\* thread::sleep of 1/60 s, then the next round of `loop`
Sleep ==
    /\ pc = "sleep"
    /\ pc' = "poll"
    /\ UNCHANGED <<canvas, cx, cy, surface, presented, events, delivered>>
    /\ UNCHANGED fvars

\* the window system queues an event
Deliver ==
    /\ pc \in {"render", "trace", "poll", "sleep"}
    /\ delivered < MaxEvents
    /\ \E e \in EventKinds : events' = Append(events, e)
    /\ delivered' = delivered + 1
    /\ UNCHANGED <<canvas, cx, cy, surface, presented, pc>>
    /\ UNCHANGED fvars

-----
(* One call of trace_ray on arguments drawn from a catalogue *)

SeqsUpTo(S, n) == UNION {[1 .. k -> S] : k \in 0 .. n}

SphereA == Sphere(F(1), Vec3(0, 0, 3), RGB(200, 100, 50))

SphereB == Sphere(F(2), Vec3(0, 0, 4), RGB(0, 0, 255))

Spheres == {SphereA, SphereB}

Lights ==
    {Light("Ambient", SCALE \div 5, None, None),
     Light("Ambient", (6 * SCALE) \div 5, None, None),
     Light("Point", (3 * SCALE) \div 5, Some(Vec3(2, 1, 0)), None),
     Light("Point", (3 * SCALE) \div 5, None, None),
     Light("Directional", SCALE \div 5, None, Some(Vec3(1, 4, 4)))}

\* pairs of origin and direction: the example ray, a ray with a direction of
\* length 2, a ray that misses, a zero-length direction, a ray tangent to
\* SphereA with an irrational root on SphereB
Rays ==
    {<<Vec3(0, 0, 0), Vec3(0, 0, 1)>>,
     <<Vec3(0, 0, 0), Vec3(0, 0, 2)>>,
     <<Vec3(0, 0, 0), Vec3(1, 0, 0)>>,
     <<Vec3(0, 0, 0), Vec3(0, 0, 0)>>,
     <<Vec3(0, 1, 0), Vec3(0, 0, 1)>>}

\* pairs of min_t and max_t: roots 1, 2 and 4 of the catalogue lie on the
\* ends of these intervals; (1, INF) is the interval main passes
Ranges ==
    {<<F(1), F(4)>>, <<F(2), F(4)>>, <<F(1), INF>>, <<F(2), PosInf>>}

Init ==
    /\ \E ray \in Rays : origin = ray[1] /\ direction = ray[2]
    /\ \E range \in Ranges : min_t = range[1] /\ max_t = range[2]
    /\ scene \in [spheres : SeqsUpTo(Spheres, MaxSpheres),
                  lighting : SeqsUpTo(Lights, MaxLights)]
    /\ i = 1
    /\ closest = NoHit
    /\ ts = <<INF, INF>>
    /\ light_intensity = 0
    /\ color = BACKGROUND_COLOR
    /\ fpc = "scan"
    /\ canvas = Canvas(0, 0)
    /\ cx = 0
    /\ cy = 0
    /\ surface = BlankSurface(canvas)
    /\ presented = 0
    /\ events = <<>>
    /\ delivered = 0
    /\ pc = "off"

\* one round of `for sphere in &scene.spheres`, lines 82-94
ScanStep ==
    /\ fpc = "scan"
    /\ i <= Len(scene.spheres)
    /\ \E roots \in {intersect_ray_sphere(origin, direction, scene.spheres[i])} :
           /\ ts' = roots
           /\ closest' = ScanSphere(closest, i, roots, min_t, max_t)
    /\ i' = i + 1
    /\ UNCHANGED <<origin, direction, min_t, max_t, scene, light_intensity,
                   color, fpc>>
    /\ UNCHANGED mvars

\* `None => BACKGROUND_COLOR`, line 97
ReturnBackground ==
    /\ fpc = "scan"
    /\ i > Len(scene.spheres)
    /\ closest.s = 0
    /\ color' = BACKGROUND_COLOR
    /\ fpc' = "done"
    /\ UNCHANGED <<origin, direction, min_t, max_t, scene, i, closest, ts,
                   light_intensity>>
    /\ UNCHANGED mvars

\* `Some(sphere) => ...`, lines 98-108, compute_lighting returning
ReturnShaded ==
    /\ fpc = "scan"
    /\ i > Len(scene.spheres)
    /\ closest.s # 0
    /\ \E p \in {HitPoint(origin, direction, closest)} :
       \E n \in {HitNormal(p, scene.spheres[closest.s])} :
       \E lit \in {compute_lighting(p, n, scene)} :
           /\ lit.ok
           /\ light_intensity' = lit.i
           /\ color' = ScaleColor(scene.spheres[closest.s].color, lit.i)
    /\ fpc' = "done"
    /\ UNCHANGED <<origin, direction, min_t, max_t, scene, i, closest, ts>>
    /\ UNCHANGED mvars

\* `Some(sphere) => ...` with an unwrap() of None inside compute_lighting
LightingPanic ==
    /\ fpc = "scan"
    /\ i > Len(scene.spheres)
    /\ closest.s # 0
    /\ \E p \in {HitPoint(origin, direction, closest)} :
       \E n \in {HitNormal(p, scene.spheres[closest.s])} :
           ~ compute_lighting(p, n, scene).ok
    /\ fpc' = "panicked"
    /\ UNCHANGED <<origin, direction, min_t, max_t, scene, i, closest, ts,
                   light_intensity, color>>
    /\ UNCHANGED mvars

Next ==
    \/ ScanStep
    \/ ReturnBackground
    \/ ReturnShaded
    \/ LightingPanic

Spec == Init /\ [][Next]_vars

\* the steps of the process running main; the scene literal of main has no
\* None position or direction, so the panic of compute_lighting is not among
\* them
MainStep ==
    \/ CallTraceRay
    \/ ScanStep
    \/ ReturnBackground
    \/ ReturnShaded
    \/ DrawPoint
    \/ Present
    \/ PollQuit
    \/ PollOther
    \/ PollEmpty
    \/ Sleep

MainNext ==
    \/ CallTraceRay
    \/ ScanStep
    \/ ReturnBackground
    \/ ReturnShaded
    \/ DrawPoint
    \/ Present
    \/ PollQuit
    \/ PollOther
    \/ PollEmpty
    \/ Sleep
    \/ Deliver

MainSpec == MainInit /\ [][MainNext]_vars

\* the process is scheduled as long as it has not exited
MainLive == MainInit /\ [][MainNext]_vars /\ WF_vars(MainStep)

----------------------------------------------------------------------------
(* Properties of trace_ray, checked under Spec *)

\* for every sphere, the discriminant and the pair of roots trace_ray receives
RootTable ==
    [k \in 1 .. Len(scene.spheres) |->
        [disc |-> Discriminant(origin, direction, scene.spheres[k]),
         r |-> intersect_ray_sphere(origin, direction, scene.spheres[k])]]

\* root j of sphere k is a real root inside the open interval (min_t, max_t)
IsCandidate(tab, k, j) ==
    /\ tab[k].disc >= 0
    /\ tab[k].r[j] # NaN
    /\ min_t < tab[k].r[j]
    /\ tab[k].r[j] < max_t

Returned == fpc = "done"

\* C1: trace_ray selects the smallest root over all spheres and both roots that
\* lies strictly between min_t and max_t; it returns the background colour when
\* there is no such root and otherwise the colour of the sphere owning that
\* smallest root, scaled by the light intensity.
C1_ClosestCandidate ==
    Returned =>
        LET tab   == RootTable
            cands == {c \in (1 .. Len(scene.spheres)) \X (1 .. 2) :
                        IsCandidate(tab, c[1], c[2])}
        IN  IF cands = {}
            THEN closest.s = 0 /\ color = RGB(255, 255, 255)
            ELSE /\ closest.s \in 1 .. Len(scene.spheres)
                 /\ \E c \in cands :
                        c[1] = closest.s /\ tab[c[1]].r[c[2]] = closest.t
                 /\ \A c \in cands : closest.t <= tab[c[1]].r[c[2]]
                 /\ color = ScaleColor(scene.spheres[closest.s].color,
                                       light_intensity)

\* a sphere is hit although one of the roots lies exactly on min_t
C1_Witness ==
    /\ Returned
    /\ closest.s # 0
    /\ closest.t > min_t
    /\ LET tab == RootTable
       IN  \E k \in 1 .. Len(scene.spheres) : \E j \in 1 .. 2 :
              tab[k].disc >= 0 /\ tab[k].r[j] = min_t

\* some scanned sphere before closest.s has a candidate root equal to closest.t
EarlierTie ==
    LET tab == RootTable
    IN  \E k \in 1 .. (i - 1) : \E j \in 1 .. 2 :
            k < closest.s /\ IsCandidate(tab, k, j) /\ tab[k].r[j] = closest.t

\* C2: when several spheres have candidate roots equal to the smallest one, the
\* sphere that comes first in scene.spheres is selected, because the selection
\* moves to another sphere only on a strictly smaller t.
C2_TieBreak ==
    /\ [](fpc \in {"scan", "done", "panicked"} /\ closest.s # 0 => ~ EarlierTie)
    /\ [][closest'.s # closest.s => closest'.t < closest.t]_vars

\* two different spheres tie on the smallest candidate and the first one wins
C2_Witness ==
    /\ Returned
    /\ LET tab == RootTable
       IN  \E k1, k2 \in 1 .. Len(scene.spheres) :
            /\ k1 < k2
            /\ scene.spheres[k1] # scene.spheres[k2]
            /\ closest.s = k1
            /\ \E j \in 1 .. 2 : IsCandidate(tab, k1, j) /\ tab[k1].r[j] = closest.t
            /\ \E j \in 1 .. 2 : IsCandidate(tab, k2, j) /\ tab[k2].r[j] = closest.t

----------------
(* Properties of intersect_ray_sphere, checked under Spec: ts holds the pair
   returned for sphere i - 1.  The quadratic is recomputed here in whole
   numbers (the catalogue has integer coordinates). *)

Scanned == fpc \in {"scan", "done", "panicked"} /\ i > 1

Whole(v) == <<v[1] \div SCALE, v[2] \div SCALE, v[3] \div SCALE>>

WDot(u, v) == u[1] * v[1] + u[2] * v[2] + u[3] * v[3]

QuadA == WDot(Whole(direction), Whole(direction))

QuadB ==
    2 * WDot(Whole(VSub(origin, scene.spheres[i - 1].center)), Whole(direction))

QuadC ==
    LET co == Whole(VSub(origin, scene.spheres[i - 1].center))
        r  == scene.spheres[i - 1].radius \div SCALE
    IN  WDot(co, co) - r * r

QuadDisc == QuadB * QuadB - 4 * QuadA * QuadC

\* m, in units of 1/SCALE, is sqrt(QuadDisc) up to the rounding of one square
\* root and one division
NearSqrtDisc(m) ==
    LET tol == QuadA + 1
    IN  /\ m + tol >= 0
        /\ (m + tol) * (m + tol) >= QuadDisc * SCALE * SCALE
        /\ (m - tol <= 0 \/ (m - tol) * (m - tol) <= QuadDisc * SCALE * SCALE)

\* 2a * t1 + b = sqrt(disc) and 2a * t2 + b = -sqrt(disc), up to rounding
SolvesQuadratic ==
    /\ NearSqrtDisc(2 * QuadA * ts[1] + QuadB * SCALE)
    /\ NearSqrtDisc(0 - (2 * QuadA * ts[2] + QuadB * SCALE))

IsExample ==
    /\ origin = Vec3(0, 0, 0)
    /\ direction = Vec3(0, 0, 1)
    /\ scene.spheres[i - 1].center = Vec3(0, 0, 3)
    /\ scene.spheres[i - 1].radius = F(1)

\* C5 as stated: the sentinel pair is (+infinity, +infinity)
C5_SentinelIsInfinity ==
    Scanned /\ QuadA > 0 =>
        /\ (QuadDisc < 0) = (ts = <<PosInf, PosInf>>)
        /\ QuadDisc >= 0 => ts[1] >= ts[2] /\ SolvesQuadratic
        /\ IsExample => ts = <<F(4), F(2)>>

\* C5: for a > 0, intersect_ray_sphere returns the sentinel pair (INF, INF),
\* INF being the finite f32::MAX, exactly when the discriminant is negative,
\* and otherwise t1 >= t2 that solve a*t^2 + b*t + c = 0 up to f32 rounding;
\* the example sphere gives the roots 4 and 2.
C5_Roots ==
    Scanned /\ QuadA > 0 =>
        /\ (QuadDisc < 0) = (ts = <<INF, INF>>)
        /\ QuadDisc >= 0 =>
              IsFinite(ts[1]) /\ IsFinite(ts[2]) /\ ts[1] >= ts[2]
              /\ SolvesQuadratic
        /\ IsExample => ts = <<F(4), F(2)>>

\* the example of the claim has been computed
C5_Witness == Scanned /\ IsExample /\ ts = <<F(4), F(2)>>

\* C9: with a zero-length direction intersect_ray_sphere reports no
\* intersection (the sentinel pair, no division by zero, no NaN root) and
\* trace_ray returns the background colour.
C9_ZeroDirectionGuarded ==
    direction = Vec3(0, 0, 0) =>
        /\ Scanned => ts = <<INF, INF>>
        /\ Returned => closest.s = 0 /\ color = BACKGROUND_COLOR

----------------------------------------------------------------------------
(* Properties of compute_lighting and of the colour, checked under Spec *)

RECURSIVE SumIntensity(_)
SumIntensity(ls) ==
    IF ls = <<>> THEN 0 ELSE Head(ls).intensity + SumIntensity(Tail(ls))

AllAmbient == \A k \in 1 .. Len(scene.lighting) : scene.lighting[k].kind = "Ambient"

Hit == Returned /\ closest.s # 0

\* channel ch of the hit sphere times the light intensity, in 1/SCALE units
Product(ch) == scene.spheres[closest.s].color[ch] * light_intensity

\* C6: with only Ambient lights compute_lighting returns the sum of their
\* intensities whatever the hit point and normal, and the returned colour is
\* the sphere's colour with each channel multiplied by that sum; intensity 0.2
\* on colour (200,100,50) gives (40,20,10).
C6_AmbientOnly ==
    Hit /\ AllAmbient =>
        /\ light_intensity = SumIntensity(scene.lighting)
        /\ \A ch \in 1 .. 3 :
              LET prod == scene.spheres[closest.s].color[ch]
                            * SumIntensity(scene.lighting)
              IN  prod < F(256) => color[ch] = prod \div SCALE
        /\ (/\ scene.lighting = <<Light("Ambient", SCALE \div 5, None, None)>>
            /\ scene.spheres[closest.s].color = RGB(200, 100, 50))
              => color = RGB(40, 20, 10)

\* the example of the claim, hit away from the axis of the sphere
C6_Witness ==
    /\ Hit
    /\ scene.lighting = <<Light("Ambient", SCALE \div 5, None, None)>>
    /\ scene.spheres[closest.s].color = RGB(200, 100, 50)
    /\ color = RGB(40, 20, 10)

\* C7: compute_lighting completes without aborting for every scene that can be
\* constructed.
C7_NeverAborts == fpc # "panicked"

\* C8 as stated: a channel product above 255 is stored modulo 256
C8_Wraps ==
    Hit => \A ch \in 1 .. 3 :
              Product(ch) > F(255) => color[ch] = (Product(ch) \div SCALE) % 256

\* C8: a channel product above 255 is stored as 255: the narrowing cast
\* saturates, it does not wrap
C8_Saturates ==
    Hit => \A ch \in 1 .. 3 : Product(ch) > F(255) => color[ch] = 255

\* a product of 256 or more has been stored
C8_Witness ==
    Hit /\ \E ch \in 1 .. 3 : Product(ch) >= F(256) /\ color[ch] = 255

----------------------------------------------------------------------------
(* Properties of the render pass and of the phases of main *)

InsideSurface(pt) ==
    /\ 0 <= pt[1] /\ pt[1] < canvas.width
    /\ 0 <= pt[2] /\ pt[2] < canvas.height

\* C3: every draw_point of the render pass targets a coordinate inside
\* [0, width) x [0, height), and after the pass every coordinate of that
\* rectangle has been written exactly once.
C3_ExactCover ==
    /\ \A pt \in DOMAIN surface : surface[pt].count > 0 => InsideSurface(pt)
    /\ pc \in {"poll", "sleep", "done"} =>
          \A pt \in DOMAIN surface : InsideSurface(pt) => surface[pt].count = 1

\* C4: to_screen maps the offset (cx, cy) to (width/2 + cx, height/2 - cy);
\* on the 800 x 600 canvas (0,0) goes to (400,300), (-400,300) to (0,0) and
\* (399,-299) to (799,599).
C4_ToScreen ==
    /\ [][\A pt \in DOMAIN surface :
            surface'[pt] # surface[pt] =>
                pt = <<(canvas.width \div 2) + cx, (canvas.height \div 2) - cy>>]_vars
    /\ [](/\ to_screen(Canvas(800, 600), 0, 0) = <<400, 300>>
          /\ to_screen(Canvas(800, 600), 0 - 400, 300) = <<0, 0>>
          /\ to_screen(Canvas(800, 600), 399, 0 - 299) = <<799, 599>>)

\* a pixel with a positive and one with a negative cy have been drawn
C4_Witness ==
    /\ cy > 0
    /\ \E pt \in DOMAIN surface : surface[pt].count > 0 /\ pt[2] > canvas.height \div 2

QuitInQueue ==
    \E k \in 1 .. Len(events) :
        \/ events[k].type = "Quit"
        \/ events[k].type = "KeyDown" /\ events[k].keycode = <<"Escape">>

\* C10: all pixel writes precede the single present(), the wait loop starts
\* after present(), the loop is left exactly when a Quit or an Escape key-down
\* event is polled, and a delivered event of that kind ends the program.
C10_Phases ==
    /\ [](/\ presented <= 1
          /\ pc = "render" => presented = 0
          /\ pc \in {"poll", "sleep", "done"} => presented = 1)
    /\ [][presented >= 1 => surface' = surface]_vars
    /\ [][(pc # "done" /\ pc' = "done") <=>
            (/\ pc = "poll"
             /\ events # <<>>
             /\ events' = Tail(events)
             /\ \/ Head(events).type = "Quit"
                \/ Head(events).type = "KeyDown"
                   /\ Head(events).keycode = <<"Escape">>)]_vars
    /\ QuitInQueue ~> pc = "done"

\* the program has left the wait loop after the render pass and present()
C10_Witness ==
    /\ pc = "done"
    /\ presented = 1
    /\ delivered = MaxEvents
    /\ \E pt \in DOMAIN surface : surface[pt].count > 0

====
